---- MODULE Spec2Model ----
(***************************************************************************)
(* Model of src/main.py: the OCR -> text combination -> LLM gateway ->     *)
(* JSON parsing pipeline run by main().                                    *)
(*                                                                         *)
(* Strings are sequences of one-character strings.                         *)
(***************************************************************************)
EXTENDS Integers, Sequences, FiniteSets, TLC

(***************************************************************************)
(* Bounds                                                                  *)
(***************************************************************************)
\* longest JSON text / completion body enumerated for the response parser
MaxLen == 3
\* most OCR output blobs enumerated for the text extractor
MaxBlobs == 2
\* most page responses enumerated in one OCR output blob
MaxPages == 2
\* most output objects one OCR job writes in a run of main
MaxOutputs == 2

(***************************************************************************)
(* Python string helpers                                                   *)
(***************************************************************************)
\* the backquote character U+0060 (the TLA+ lexer admits none in a string)
BT == "bq"
NL == "\n"
SP == " "

\* str.startswith / str.endswith
startswith(s, p) == Len(s) >= Len(p) /\ SubSeq(s, 1, Len(p)) = p

endswith(s, p) == Len(s) >= Len(p) /\ SubSeq(s, Len(s) - Len(p) + 1, Len(s)) = p

\* the whitespace str.strip() removes and the JSON grammar skips
IsSpace(c) == c \in {SP, NL}

\* s[a:-b] for a, b > 0
Slice(s, a, b) ==
    IF Len(s) - b <= a THEN <<>> ELSE SubSeq(s, a + 1, Len(s) - b)

RECURSIVE lstrip(_)
lstrip(s) == IF s # <<>> /\ IsSpace(Head(s)) THEN lstrip(Tail(s)) ELSE s

RECURSIVE rstrip(_)
rstrip(s) ==
    IF s # <<>> /\ IsSpace(s[Len(s)]) THEN rstrip(SubSeq(s, 1, Len(s) - 1)) ELSE s

\* str.strip()
strip(s) == rstrip(lstrip(s))

(***************************************************************************)
(* json.loads on the JSON fragment  value ::= 1+ | "[" [value {"," value}] *)
(* "]"  with insignificant whitespace.  A value is [t, v]: a number        *)
(* carries its integer, an array the sequence of its elements.             *)
(***************************************************************************)
JsonError == [t |-> "JSONDecodeError", v |-> 0]
NoValue == [t |-> "none", v |-> 0]
JNum(n) == [t |-> "num", v |-> n]
JArr(a) == [t |-> "arr", v |-> a]
PFail == [ok |-> FALSE, val |-> NoValue, pos |-> 0]
POk(val, pos) == [ok |-> TRUE, val |-> val, pos |-> pos]

\* first index >= i of s holding a non-whitespace character, Len(s)+1 if none
RECURSIVE SkipWs(_, _)
SkipWs(s, i) == IF i <= Len(s) /\ IsSpace(s[i]) THEN SkipWs(s, i + 1) ELSE i

\* scans the digits from index i with the value n read so far
RECURSIVE ParseNumber(_, _, _)
ParseNumber(s, i, n) ==
    IF i <= Len(s) /\ s[i] = "1" THEN ParseNumber(s, i + 1, 10 * n + 1)
    ELSE POk(JNum(n), i)

RECURSIVE ParseValue(_, _)
RECURSIVE ParseElems(_, _, _)
\* parses one value starting at index i (whitespace already skipped)
ParseValue(s, i) ==
    IF i > Len(s) THEN PFail
    ELSE IF s[i] = "1" THEN ParseNumber(s, i, 0)
    ELSE IF s[i] = "["
         THEN LET j == SkipWs(s, i + 1) IN
              IF j <= Len(s) /\ s[j] = "]" THEN POk(JArr(<<>>), j + 1)
              ELSE ParseElems(s, j, <<>>)
    ELSE PFail

\* parses the elements of an array whose elements so far are acc
ParseElems(s, i, acc) ==
    LET e == ParseValue(s, i) IN
    IF ~e.ok THEN PFail
    ELSE LET j == SkipWs(s, e.pos) IN
         IF j > Len(s) THEN PFail
         ELSE IF s[j] = "," THEN ParseElems(s, SkipWs(s, j + 1), Append(acc, e.val))
         ELSE IF s[j] = "]" THEN POk(JArr(Append(acc, e.val)), j + 1)
         ELSE PFail

\* json.loads: the value of the text, or JsonError (raise JSONDecodeError)
json_loads(s) ==
    LET e == ParseValue(s, SkipWs(s, 1)) IN
    IF ~e.ok THEN JsonError
    ELSE IF SkipWs(s, e.pos) <= Len(s) THEN JsonError
    ELSE e.val

IsValidJson(s) == json_loads(s) # JsonError

(***************************************************************************)
(* Values of the run                                                       *)
(***************************************************************************)
\* Python's None and a present value
None == [some |-> FALSE, val |-> <<>>]
Some(v) == [some |-> TRUE, val |-> v]

\* no exception
NoExc == "NoExc"

\* isinstance(exc, cls) as an except clause tests it: json.loads raises
\* JSONDecodeError, indexing raises KeyError / IndexError, and none of them
\* is a pydantic ValidationError
IsInstance(exc, cls) == cls = "Exception" \/ exc = cls

Info(at) == [level |-> "info", at |-> at]
Error(at, exc) == [level |-> "error", at |-> at, exc |-> exc]

\* what a function call yields: a return value, or an exception, with the
\* log lines it wrote
Return(val, logs) == [ok |-> TRUE, val |-> val, exc |-> NoExc, logs |-> logs]
Raise(exc, logs) == [ok |-> FALSE, val |-> <<>>, exc |-> exc, logs |-> logs]

(***************************************************************************)
(* GoogleVisionClient.async_detect_document                                *)
(***************************************************************************)
\* operation.result(timeout=420)
OcrTimeout == 420

GS == <<"g", "s", ":", "/", "/">>

\* index of the first element of s at or after i that is c, Len(s)+1 if none
RECURSIVE IndexOf(_, _, _)
IndexOf(s, c, i) == IF i > Len(s) \/ s[i] = c THEN i ELSE IndexOf(s, c, i + 1)

\* re.match(r"gs://([^/]+)/(.+)", uri): <<bucket, prefix>>, or None
re_match(uri) ==
    IF ~startswith(uri, GS) THEN None
    ELSE LET slash == IndexOf(uri, "/", 6)
             stop == IndexOf(uri, NL, slash + 1)
         IN  IF slash = 6 \/ slash > Len(uri) THEN None
             ELSE IF stop = slash + 1 THEN None
             ELSE Some(<<SubSeq(uri, 6, slash - 1), SubSeq(uri, slash + 1, stop - 1)>>)

\* bucket.list_blobs(prefix=prefix): the objects whose name starts with prefix
RECURSIVE list_blobs(_, _)
list_blobs(objects, prefix) ==
    IF objects = <<>> THEN <<>>
    ELSE IF startswith(Head(objects).name, prefix)
         THEN <<Head(objects)>> \o list_blobs(Tail(objects), prefix)
         ELSE list_blobs(Tail(objects), prefix)

\* [blob for blob in ... if not blob.name.endswith("/")]
RECURSIVE NotDirectoryMarkers(_)
NotDirectoryMarkers(blobs) ==
    IF blobs = <<>> THEN <<>>
    ELSE IF endswith(Head(blobs).name, <<"/">>)
         THEN NotDirectoryMarkers(Tail(blobs))
         ELSE <<Head(blobs)>> \o NotDirectoryMarkers(Tail(blobs))

\* lines 43-55: the listing after the wait; dest is the destination setting
ListOutputFiles(objects, dest) ==
    IF ~dest.some THEN Raise("TypeError", <<>>)
    ELSE LET match == re_match(dest.val) IN
         IF ~match.some THEN Raise("AttributeError", <<>>)
         ELSE Return(NotDirectoryMarkers(list_blobs(objects, match.val[2])), <<>>)

(***************************************************************************)
(* TextExtractor.get_combined_extract_text                                 *)
(*                                                                         *)
(* A blob is [name, payload].  A payload is [decodes, doc]: decodes is      *)
(* "ok" when the bytes are UTF-8 holding a JSON text and doc is then that  *)
(* text's value, a record keyed as the JSON object is; "UnicodeDecodeError"*)
(* or "JSONDecodeError" otherwise.                                         *)
(***************************************************************************)
\* CombinePages putting each page's text in front of the text combined so far
RECURSIVE CombinePagesPrepend(_, _)
CombinePagesPrepend(pages, combined_text) ==
    IF pages = <<>> THEN Return(combined_text, <<>>)
    ELSE LET page_response == Head(pages) IN
         IF "fullTextAnnotation" \notin DOMAIN page_response
         THEN Raise("KeyError", <<>>)
         ELSE LET annotation == page_response.fullTextAnnotation IN
              IF "text" \notin DOMAIN annotation THEN Raise("KeyError", <<>>)
              ELSE CombinePagesPrepend(Tail(pages), annotation.text \o <<NL>> \o combined_text)

\* the pages of one response, appended to the text combined so far
RECURSIVE CombinePages(_, _)
CombinePages(pages, combined_text) ==
    IF pages = <<>> THEN Return(combined_text, <<>>)
    ELSE LET page_response == Head(pages) IN
         IF "fullTextAnnotation" \notin DOMAIN page_response
         THEN Raise("KeyError", <<>>)
         ELSE LET annotation == page_response.fullTextAnnotation IN
              IF "text" \notin DOMAIN annotation THEN Raise("KeyError", <<>>)
              ELSE CombinePages(Tail(pages), combined_text \o annotation.text \o <<NL>>)

\* the body of the try block for one blob (lines 66-71)
CombineBlob(payload, combined_text) ==
    IF payload.decodes # "ok" THEN Raise("JSONDecodeError", <<>>)
    ELSE IF "responses" \notin DOMAIN payload.doc THEN Raise("KeyError", <<>>)
    ELSE CombinePages(payload.doc.responses, combined_text)

\* CombineBlobs returning the text combined so far when a blob fails
RECURSIVE CombineBlobsPartial(_, _)
CombineBlobsPartial(blob_list, combined_text) ==
    IF blob_list = <<>> THEN Return(combined_text, <<>>)
    ELSE LET payload == Head(blob_list).payload IN
         IF payload.decodes = "UnicodeDecodeError"
         THEN Return(combined_text, <<>>)
         ELSE LET r == CombineBlob(payload, combined_text) IN
              IF r.ok THEN CombineBlobsPartial(Tail(blob_list), r.val)
              ELSE Return(combined_text, <<>>)

\* the for loop over the blobs (lines 63-75)
RECURSIVE CombineBlobs(_, _)
CombineBlobs(blob_list, combined_text) ==
    IF blob_list = <<>> THEN Return(combined_text, <<>>)
    ELSE LET payload == Head(blob_list).payload IN
         IF payload.decodes = "UnicodeDecodeError"
         THEN Raise("UnicodeDecodeError", <<>>)
         ELSE LET r == CombineBlob(payload, combined_text) IN
              IF r.ok THEN CombineBlobs(Tail(blob_list), r.val)
              ELSE IF IsInstance(r.exc, "ValidationError")
                   THEN Raise(r.exc, <<Error("get_combined_extract_text", r.exc)>>)
                   ELSE Raise(r.exc, <<>>)

get_combined_extract_text(blob_list) ==
    LET r == CombineBlobs(blob_list, <<>>) IN
    IF r.ok THEN Return(r.val, <<Info("get_combined_extract_text")>>) ELSE r

(***************************************************************************)
(* PortkeyClient.send_to_portkey                                           *)
(*                                                                         *)
(* gateway is what the gateway does with a call: [fails, response].        *)
(* The result carries calls, the requests issued.                          *)
(***************************************************************************)
Payload(prompt_id, text) == [prompt_id |-> prompt_id, variables |-> [text |-> text]]

\* send_to_portkey calling the gateway a second time when the call fails
send_to_portkey_retry(prompt_id, text, gateway) ==
    LET payload == Payload(prompt_id, text)
        sending == <<Info("send_to_portkey")>>
    IN  IF gateway.fails
        THEN [ok |-> FALSE, val |-> None, exc |-> "GatewayError",
              logs |-> sending \o <<Error("send_to_portkey", "GatewayError")>>,
              calls |-> <<payload, payload>>]
        ELSE [ok |-> TRUE, val |-> Some(gateway.response), exc |-> NoExc,
              logs |-> sending \o <<Info("send_to_portkey")>>,
              calls |-> <<payload>>]

send_to_portkey(prompt_id, text, gateway) ==
    LET payload == Payload(prompt_id, text)
        sending == <<Info("send_to_portkey")>>
    IN  IF gateway.fails
        THEN [ok |-> FALSE, val |-> None, exc |-> "GatewayError",
              logs |-> sending \o <<Error("send_to_portkey", "GatewayError")>>,
              calls |-> <<payload>>]
        ELSE [ok |-> TRUE, val |-> Some(gateway.response), exc |-> NoExc,
              logs |-> sending \o <<Info("send_to_portkey")>>,
              calls |-> <<payload>>]

(***************************************************************************)
(* DocumentProcessor.parse_and_validate_response                           *)
(***************************************************************************)
OpenFence == <<BT, BT, BT, "j", "s", "o", "n">>
CloseFence == <<BT, BT, BT>>

\* StripFence leaving the close marker in place
StripFenceKeepClose(content) ==
    IF startswith(content, OpenFence) /\ endswith(content, CloseFence)
    THEN strip(SubSeq(content, 8, Len(content)))
    ELSE content

\* StripFence removing each marker that is there, whether or not the other is
StripFenceLenient(content) ==
    LET opened == IF startswith(content, OpenFence)
                  THEN SubSeq(content, 8, Len(content)) ELSE content
        closed == IF endswith(opened, CloseFence)
                  THEN SubSeq(opened, 1, Len(opened) - 3) ELSE opened
    IN  strip(closed)

\* lines 124-126
StripFence(content) ==
    IF startswith(content, OpenFence) /\ endswith(content, CloseFence)
    THEN strip(Slice(content, 7, 3))
    ELSE content

\* the result carries parsed, the text handed to json.loads
parse_and_validate_response(response) ==
    IF response.choices = <<>>
    THEN [ok |-> FALSE, val |-> NoValue, exc |-> "IndexError", logs |-> <<>>,
          parsed |-> None]
    ELSE LET content == StripFence(response.choices[1].message.content)
             extracted_json == json_loads(content)
         IN  IF extracted_json # JsonError
             THEN [ok |-> TRUE, val |-> extracted_json, exc |-> NoExc,
                   logs |-> <<Info("parse_and_validate_response")>>,
                   parsed |-> Some(content)]
             ELSE [ok |-> FALSE, val |-> NoValue, exc |-> "JSONDecodeError",
                   logs |-> IF IsInstance("JSONDecodeError", "ValidationError")
                            THEN <<Error("parse_and_validate_response", "JSONDecodeError")>>
                            ELSE <<>>,
                   parsed |-> Some(content)]

(***************************************************************************)
(* The run of main(): state                                                *)
(***************************************************************************)
VARIABLES
    pc,             \* where the run is
    env,            \* the environment: setting name -> None or Some(value)
    config,         \* main's four os.getenv results
    store,          \* the objects of the bucket, in listing order
    jobTime,        \* how long the OCR job took
    blob_list,      \* process_document's blob_list, None until assigned
    combined_text,  \* process_document's combined_text, None until assigned
    response,       \* process_document's response, None until assigned
    extracted_json, \* process_document's result, NoValue until assigned
    raised,         \* the exception process_document raised, NoExc if none
    steps,          \* the pipeline steps started, in order
    done,           \* the pipeline steps that succeeded, in order
    submissions,    \* OCR jobs submitted
    listings,       \* listings of the destination prefix
    requests,       \* the requests sent to the gateway, in order
    parsed,         \* the text handed to json.loads, None until then
    logs,           \* the logfire lines written, in order
    stdout,         \* what was printed
    exitStatus      \* the exit status of the process, -1 while it runs

vars == <<pc, env, config, store, jobTime, blob_list, combined_text, response,
          extracted_json, raised, steps, done, submissions, listings, requests,
          parsed, logs, stdout, exitStatus>>

SettingNames == {"INPUT_DOCUMENT_PATH", "OUTPUT_DOCUMENT_PATH",
                 "PORTKEY_PROMPT_ID", "PORTKEY_API_KEY"}

(***************************************************************************)
(* Inputs                                                                  *)
(***************************************************************************)
SourceUri == GS \o <<"b", "/", "i">>
DestUris == {GS \o <<"b", "/", "o">>, GS \o <<"b", "/", "o", "/">>, GS \o <<"b">>}
PromptId == <<"p">>
ApiKey == <<"k">>

SettingValues(name) ==
    CASE name = "INPUT_DOCUMENT_PATH" -> {SourceUri}
      [] name = "OUTPUT_DOCUMENT_PATH" -> DestUris
      [] name = "PORTKEY_PROMPT_ID" -> {PromptId}
      [] name = "PORTKEY_API_KEY" -> {ApiKey}

Envs == {e \in [SettingNames -> {None} \cup {Some(v) : v \in UNION {SettingValues(n) : n \in SettingNames}}] :
            \A n \in SettingNames : e[n].some => e[n].val \in SettingValues(n)}

Page(text) == [fullTextAnnotation |-> [text |-> text]]
\* a page response without fullTextAnnotation (a blank page)
BlankPage == [context |-> <<"p">>]
\* a page response whose annotation has no text
NoTextPage == [fullTextAnnotation |-> [pages |-> <<>>]]
Doc(pages) == [decodes |-> "ok", doc |-> [responses |-> pages]]
\* a JSON object without responses
NoResponsesDoc == [decodes |-> "ok", doc |-> [error |-> <<"e">>]]
NotJson == [decodes |-> "JSONDecodeError", doc |-> [error |-> <<>>]]
NotUtf8 == [decodes |-> "UnicodeDecodeError", doc |-> [error |-> <<>>]]

Digits == <<"1", "2", "3", "4", "5">>
OutputName(i) == <<"o", "/", Digits[i]>>
\* the blobs of the payloads, named in order
Blobs(payloads) == [i \in 1..Len(payloads) |-> [name |-> OutputName(i), payload |-> payloads[i]]]

SeqsUpTo(S, n) == UNION {[1..k -> S] : k \in 0..n}

\* objects in the bucket before the job: a directory marker of the
\* destination and an object outside it
DirectoryMarker == [name |-> <<"o", "/">>, payload |-> NotJson]
Foreign == [name |-> <<"x", "/", "1">>, payload |-> Doc(<<Page(<<"x">>)>>)]
PreExisting == {<<>>, <<DirectoryMarker>>, <<Foreign>>, <<DirectoryMarker, Foreign>>}

\* the payloads an OCR job of a run of main writes
RunPayloads == {Doc(<<Page(<<"a">>)>>), Doc(<<>>), Doc(<<Page(<<"b">>), BlankPage>>), NotJson}
JobOutputs == {Blobs(ps) : ps \in SeqsUpTo(RunPayloads, MaxOutputs)}
JobTimes == {1, OcrTimeout - 1, OcrTimeout + 1}

\* the payloads enumerated for the text extractor
PageKinds == {Page(<<"a">>), Page(<<"b">>), BlankPage}
ExtractPayloads ==
    {Doc(pages) : pages \in SeqsUpTo(PageKinds, MaxPages)}
        \cup {Doc(<<Page(<<>>)>>), Doc(<<NoTextPage>>), NoResponsesDoc, NotJson, NotUtf8}
BlobLists == {Blobs(ps) : ps \in SeqsUpTo(ExtractPayloads, MaxBlobs)}

Completion(content) == [choices |-> <<[message |-> [content |-> content]]>>]
NoChoices == [choices |-> <<>>]
Fenced(j) == OpenFence \o <<NL>> \o j \o <<NL>> \o CloseFence

\* the completions the gateway returns in a run of main
RunContents == {<<"1">>, Fenced(<<"[", "1", "]">>), OpenFence \o <<NL, "1">>, <<"n">>}
Gateways ==
    {[fails |-> TRUE, response |-> NoChoices], [fails |-> FALSE, response |-> NoChoices]}
        \cup {[fails |-> FALSE, response |-> Completion(c)] : c \in RunContents}

\* the contents enumerated for the response parser
Alphabet == {"1", "[", "]", ",", SP, NL, BT}
Texts == SeqsUpTo(Alphabet, MaxLen)
Contents ==
    Texts \cup {Fenced(j) : j \in Texts} \cup {OpenFence \o j : j \in Texts}
          \cup {j \o CloseFence : j \in Texts}

(***************************************************************************)
(* The run of main(): steps                                                *)
(***************************************************************************)
Init ==
    /\ pc = "main"
    /\ env \in Envs
    /\ config = [n \in SettingNames |-> None]
    /\ store \in PreExisting
    /\ jobTime = 0
    /\ blob_list = None
    /\ combined_text = None
    /\ response = None
    /\ extracted_json = NoValue
    /\ raised = NoExc
    /\ steps = <<>>
    /\ done = <<>>
    /\ submissions = 0
    /\ listings = 0
    /\ requests = <<>>
    /\ parsed = None
    /\ logs = <<>>
    /\ stdout = <<>>
    /\ exitStatus = -1

\* lines 152-170: the settings are read and the clients built; Portkey() may
\* reject a missing key, an exception outside main's try block
main_init ==
    /\ pc = "main"
    /\ config' = env
    /\ \E rejects \in {b \in BOOLEAN : b => ~env["PORTKEY_API_KEY"].some} :
          IF rejects
          THEN /\ logs' = logs \o <<Info("main"), Info("main"), Info("main")>>
               /\ pc' = "exit"
               /\ exitStatus' = 1
          ELSE /\ logs' = logs \o <<Info("main"), Info("main"), Info("main"), Info("main")>>
               /\ pc' = "ocr_submit"
               /\ exitStatus' = exitStatus
    /\ UNCHANGED <<env, store, jobTime, blob_list, combined_text, response,
                   extracted_json, raised, steps, done, submissions, listings,
                   requests, parsed, stdout>>

\* lines 110, 26-39: the job is submitted; the service accepts it or not
async_submit ==
    /\ pc = "ocr_submit"
    /\ steps' = Append(steps, "ocr")
    /\ submissions' = submissions + 1
    /\ \E accepted \in BOOLEAN :
          IF accepted
          THEN /\ logs' = Append(logs, Info("async_detect_document"))
               /\ pc' = "ocr_wait"
               /\ raised' = raised
          ELSE /\ logs' = logs
               /\ pc' = "raised"
               /\ raised' = "ServiceError"
    /\ UNCHANGED <<env, config, store, jobTime, blob_list, combined_text, response,
                   extracted_json, done, listings, requests, parsed, stdout,
                   exitStatus>>

\* async_wait returning at the timeout as if the job had completed
async_wait_untimed ==
    /\ pc = "ocr_wait"
    /\ \E t \in JobTimes :
          /\ jobTime' = t
          /\ IF t <= OcrTimeout
             THEN \E out \in JobOutputs : store' = store \o out
             ELSE store' = store
          /\ pc' = "ocr_list"
          /\ raised' = raised
    /\ UNCHANGED <<env, config, blob_list, combined_text, response, extracted_json,
                   steps, done, submissions, listings, requests, parsed, logs,
                   stdout, exitStatus>>

\* line 40: operation.result(timeout=420); a job that completes has written
\* its output objects
async_wait ==
    /\ pc = "ocr_wait"
    /\ \E t \in JobTimes :
          /\ jobTime' = t
          /\ IF t <= OcrTimeout
             THEN /\ \E out \in JobOutputs : store' = store \o out
                  /\ pc' = "ocr_list"
                  /\ raised' = raised
             ELSE /\ store' = store
                  /\ pc' = "raised"
                  /\ raised' = "TimeoutError"
    /\ UNCHANGED <<env, config, blob_list, combined_text, response, extracted_json,
                   steps, done, submissions, listings, requests, parsed, logs,
                   stdout, exitStatus>>

\* lines 43-55
async_list ==
    /\ pc = "ocr_list"
    /\ LET r == ListOutputFiles(store, config["OUTPUT_DOCUMENT_PATH"]) IN
       IF r.ok
       THEN /\ listings' = listings + 1
            /\ blob_list' = Some(r.val)
            /\ done' = Append(done, "ocr")
            /\ pc' = "extract"
            /\ raised' = raised
       ELSE /\ listings' = listings
            /\ blob_list' = blob_list
            /\ done' = done
            /\ pc' = "raised"
            /\ raised' = r.exc
    /\ UNCHANGED <<env, config, store, jobTime, combined_text, response,
                   extracted_json, steps, submissions, requests, parsed, logs,
                   stdout, exitStatus>>

\* extract_text going on to the gateway call when the extraction fails
extract_text_continue ==
    /\ pc = "extract"
    /\ steps' = Append(steps, "combine")
    /\ LET r == get_combined_extract_text(blob_list.val) IN
       /\ logs' = logs \o r.logs
       /\ pc' = "gateway"
       /\ IF r.ok
          THEN /\ combined_text' = Some(r.val)
               /\ done' = Append(done, "combine")
               /\ raised' = raised
          ELSE /\ combined_text' = Some(<<>>)
               /\ done' = done
               /\ raised' = r.exc
    /\ UNCHANGED <<env, config, store, jobTime, blob_list, response, extracted_json,
                   submissions, listings, requests, parsed, stdout, exitStatus>>

\* line 111
extract_text ==
    /\ pc = "extract"
    /\ steps' = Append(steps, "combine")
    /\ LET r == get_combined_extract_text(blob_list.val) IN
       /\ logs' = logs \o r.logs
       /\ IF r.ok
          THEN /\ combined_text' = Some(r.val)
               /\ done' = Append(done, "combine")
               /\ pc' = "gateway"
               /\ raised' = raised
          ELSE /\ combined_text' = combined_text
               /\ done' = done
               /\ pc' = "raised"
               /\ raised' = r.exc
    /\ UNCHANGED <<env, config, store, jobTime, blob_list, response, extracted_json,
                   submissions, listings, requests, parsed, stdout, exitStatus>>

\* line 114
send_text ==
    /\ pc = "gateway"
    /\ steps' = Append(steps, "gateway")
    /\ \E gateway \in Gateways :
          LET r == send_to_portkey(config["PORTKEY_PROMPT_ID"], combined_text.val, gateway) IN
          /\ logs' = logs \o r.logs
          /\ requests' = requests \o r.calls
          /\ IF r.ok
             THEN /\ response' = r.val
                  /\ done' = Append(done, "gateway")
                  /\ pc' = "parse"
                  /\ raised' = raised
             ELSE /\ response' = response
                  /\ done' = done
                  /\ pc' = "raised"
                  /\ raised' = r.exc
    /\ UNCHANGED <<env, config, store, jobTime, blob_list, combined_text,
                   extracted_json, submissions, listings, parsed, stdout,
                   exitStatus>>

\* lines 117-118
parse_response ==
    /\ pc = "parse"
    /\ steps' = Append(steps, "parse")
    /\ LET r == parse_and_validate_response(response.val) IN
       /\ logs' = logs \o r.logs
       /\ parsed' = r.parsed
       /\ IF r.ok
          THEN /\ extracted_json' = r.val
               /\ done' = Append(done, "parse")
               /\ pc' = "returned"
               /\ raised' = raised
          ELSE /\ extracted_json' = extracted_json
               /\ done' = done
               /\ pc' = "raised"
               /\ raised' = r.exc
    /\ UNCHANGED <<env, config, store, jobTime, blob_list, combined_text, response,
                   submissions, listings, requests, stdout, exitStatus>>

\* lines 172-174, then main returns
main_success ==
    /\ pc = "returned"
    /\ logs' = Append(logs, Info("main"))
    /\ stdout' = stdout \o <<[line |-> "Extracted JSON Output:", json |-> NoValue],
                            [line |-> "json.dumps", json |-> extracted_json]>>
    /\ pc' = "exit"
    /\ exitStatus' = 0
    /\ UNCHANGED <<env, config, store, jobTime, blob_list, combined_text, response,
                   extracted_json, raised, steps, done, submissions, listings,
                   requests, parsed>>

\* lines 175-176, then main returns
main_failure ==
    /\ pc = "raised"
    /\ logs' = Append(logs, Error("main", raised))
    /\ pc' = "exit"
    /\ exitStatus' = 0
    /\ UNCHANGED <<env, config, store, jobTime, blob_list, combined_text, response,
                   extracted_json, raised, steps, done, submissions, listings,
                   requests, parsed, stdout>>

Next ==
    \/ main_init
    \/ async_submit
    \/ async_wait
    \/ async_list
    \/ extract_text
    \/ send_text
    \/ parse_response
    \/ main_success
    \/ main_failure

Spec == Init /\ [][Next]_vars

(***************************************************************************)
(* The text extractor and the response parser on enumerated inputs: the    *)
(* run has reached the call and the call is made.                          *)
(***************************************************************************)
AllSet == [n \in SettingNames |->
             IF n = "OUTPUT_DOCUMENT_PATH" THEN Some(GS \o <<"b", "/", "o", "/">>)
             ELSE Some(CHOOSE v \in SettingValues(n) : TRUE)]

\* async_detect_document has returned the blobs the job wrote
InitExtract ==
    /\ pc = "extract"
    /\ env = AllSet
    /\ config = AllSet
    /\ store \in BlobLists
    /\ jobTime = 1
    /\ blob_list = Some(store)
    /\ combined_text = None
    /\ response = None
    /\ extracted_json = NoValue
    /\ raised = NoExc
    /\ steps = <<"ocr">>
    /\ done = <<"ocr">>
    /\ submissions = 1
    /\ listings = 1
    /\ requests = <<>>
    /\ parsed = None
    /\ logs = <<Info("main"), Info("main"), Info("main"), Info("main"),
                Info("async_detect_document")>>
    /\ stdout = <<>>
    /\ exitStatus = -1

NextExtract == extract_text

SpecExtract == InitExtract /\ [][NextExtract]_vars

\* the job wrote nothing and the gateway has answered the empty text
InitParse ==
    /\ pc = "parse"
    /\ env = AllSet
    /\ config = AllSet
    /\ store = <<>>
    /\ jobTime = 1
    /\ blob_list = Some(<<>>)
    /\ combined_text = Some(<<>>)
    /\ \E c \in Contents : response = Some(Completion(c))
    /\ extracted_json = NoValue
    /\ raised = NoExc
    /\ steps = <<"ocr", "combine", "gateway">>
    /\ done = <<"ocr", "combine", "gateway">>
    /\ submissions = 1
    /\ listings = 1
    /\ requests = <<Payload(Some(PromptId), <<>>)>>
    /\ parsed = None
    /\ logs = <<Info("main"), Info("main"), Info("main"), Info("main"),
                Info("async_detect_document"), Info("get_combined_extract_text"),
                Info("send_to_portkey"), Info("send_to_portkey")>>
    /\ stdout = <<>>
    /\ exitStatus = -1

NextParse == parse_response

SpecParse == InitParse /\ [][NextParse]_vars

(***************************************************************************)
(* Properties                                                              *)
(***************************************************************************)
PipelineOrder == <<"ocr", "combine", "gateway", "parse">>
IsPrefix(a, b) == Len(a) <= Len(b) /\ a = SubSeq(b, 1, Len(a))
Range(f) == {f[i] : i \in DOMAIN f}
Started(step) == step \in Range(steps)
Missing == {n \in SettingNames : ~env[n].some}

\* C1: the steps of process_document start at most once each and in the
\* order OCR, combination, gateway, parsing; a step starts only when every
\* earlier one succeeded; after a failure no step starts and the exception,
\* not a record, is what the caller gets.
C1_StepsInOrderFailFast ==
    /\ IsPrefix(steps, PipelineOrder)
    /\ IsPrefix(done, steps)
    /\ Len(steps) <= Len(done) + 1
    /\ raised # NoExc =>
          /\ Len(steps) = Len(done) + 1
          /\ pc \in {"raised", "exit"}
          /\ extracted_json = NoValue
    /\ pc = "returned" => done = PipelineOrder /\ raised = NoExc /\ extracted_json # NoValue

\* the gateway call failed after two steps succeeded and main has handled it
C1_Witness ==
    /\ pc = "exit"
    /\ raised = "GatewayError"
    /\ steps = <<"ocr", "combine", "gateway">>
    /\ done = <<"ocr", "combine">>

\* every page of every blob carries fullTextAnnotation.text
WellFormed(blobs) ==
    \A i \in 1..Len(blobs) :
        /\ blobs[i].payload.decodes = "ok"
        /\ "responses" \in DOMAIN blobs[i].payload.doc
        /\ \A k \in 1..Len(blobs[i].payload.doc.responses) :
              LET page == blobs[i].payload.doc.responses[k] IN
              /\ "fullTextAnnotation" \in DOMAIN page
              /\ "text" \in DOMAIN page.fullTextAnnotation

\* the texts of the first n pages, each followed by a newline
RECURSIVE PagesText(_, _)
PagesText(pages, n) ==
    IF n = 0 THEN <<>>
    ELSE PagesText(pages, n - 1) \o pages[n].fullTextAnnotation.text \o <<NL>>

\* the page texts of the first n blobs
RECURSIVE BlobsText(_, _)
BlobsText(blobs, n) ==
    IF n = 0 THEN <<>>
    ELSE BlobsText(blobs, n - 1)
            \o PagesText(blobs[n].payload.doc.responses, Len(blobs[n].payload.doc.responses))

\* C2: for well-formed blobs get_combined_extract_text returns every page's
\* text followed by a newline, blob by blob in list order and page by page in
\* responses order; the empty list gives the empty string.
C2_CombinedTextIsConcatenation ==
    (pc # "extract" /\ WellFormed(blob_list.val)) =>
        /\ raised = NoExc
        /\ combined_text = Some(BlobsText(blob_list.val, Len(blob_list.val)))

\* two blobs, pages b,a and a, were combined
C2_Witness ==
    /\ pc = "gateway"
    /\ Len(blob_list.val) = 2
    /\ blob_list.val[1].payload = Doc(<<Page(<<"b">>), Page(<<"a">>)>>)
    /\ blob_list.val[2].payload = Doc(<<Page(<<"a">>)>>)
    /\ combined_text = Some(<<"b", NL, "a", NL, "a", NL>>)

\* C3: when a page lacks fullTextAnnotation or a blob's payload is malformed,
\* get_combined_extract_text raises and returns no text, and process_document
\* never calls the gateway.
C3_ExtractionFailureIsHard ==
    (Started("combine") /\ ~WellFormed(blob_list.val)) =>
        /\ raised \in {"KeyError", "JSONDecodeError", "UnicodeDecodeError"}
        /\ combined_text = None
        /\ ~Started("gateway")
        /\ requests = <<>>

\* the second page of a blob was blank, after the text of the first page had
\* been accumulated
C3_Witness ==
    /\ pc = "exit"
    /\ raised = "KeyError"
    /\ \E i \in 1..Len(blob_list.val) :
          blob_list.val[i].payload = Doc(<<Page(<<"b">>), BlankPage>>)
    /\ combined_text = None
    /\ requests = <<>>

Content == response.val.choices[1].message.content
\* what lies between the markers of a content as long as a fenced block
Inner(c) == IF Len(c) >= 12 THEN SubSeq(c, 9, Len(c) - 4) ELSE <<>>

\* C4: a valid JSON text J in a fenced block (open marker, newline, J, newline,
\* close marker) parses to the value of J, and so does J without fencing.
C4_FenceRoundTrip ==
    pc # "parse" =>
        /\ IsValidJson(Content) =>
              raised = NoExc /\ extracted_json = json_loads(Content)
        /\ (Content = Fenced(Inner(Content)) /\ IsValidJson(Inner(Content))) =>
              raised = NoExc /\ extracted_json = json_loads(Inner(Content))

\* the fenced text [1] was parsed to the array of the number 1
C4_Witness ==
    /\ pc = "returned"
    /\ Content = Fenced(<<"[", "1", "]">>)
    /\ extracted_json = JArr(<<JNum(1)>>)

\* C5: a content with the open marker and no close marker, or the close
\* marker and no open marker, is handed to json.loads unmodified and the call
\* ends in a parse error.
C5_MalformedFenceFails ==
    (pc # "parse" /\ startswith(Content, OpenFence) # endswith(Content, CloseFence)) =>
        /\ parsed = Some(Content)
        /\ raised = "JSONDecodeError"
        /\ extracted_json = NoValue

\* an open marker, a newline and 1, without a close marker, failed to parse
C5_Witness ==
    /\ pc = "raised"
    /\ Content = OpenFence \o <<NL, "1">>
    /\ parsed = Some(Content)
    /\ raised = "JSONDecodeError"

\* C6: when a required setting is absent no pipeline step is started: no OCR
\* job is submitted and no gateway call is made.
C6_MissingSettingStartsNothing ==
    Missing # {} => steps = <<>> /\ submissions = 0 /\ requests = <<>>

\* C7: when a pipeline step fails the process writes nothing to standard
\* output and exits with a non-zero status; the record is written only when
\* all four steps succeeded.
C7_FailureExitsNonZero ==
    /\ (pc = "exit" /\ raised # NoExc) => stdout = <<>> /\ exitStatus # 0
    /\ stdout # <<>> => done = PipelineOrder

\* C8: send_to_portkey makes exactly one gateway call, with the request
\* {prompt_id, variables: {text}}; a failure is logged and re-raised without a
\* second attempt; whatever text was combined is sent, the empty string too.
C8_SingleGatewayCall ==
    /\ Started("gateway") =>
          requests = <<[prompt_id |-> config["PORTKEY_PROMPT_ID"],
                        variables |-> [text |-> combined_text.val]]>>
    /\ ~Started("gateway") => requests = <<>>
    /\ (combined_text.some /\ pc # "gateway") => Started("gateway")
    /\ (Started("gateway") /\ "gateway" \notin Range(done)) =>
          /\ raised = "GatewayError"
          /\ Error("send_to_portkey", "GatewayError") \in Range(logs)
          /\ response = None

\* the empty text was sent and the call failed
C8_Witness ==
    /\ pc = "exit"
    /\ raised = "GatewayError"
    /\ combined_text = Some(<<>>)
    /\ Len(requests) = 1
    /\ requests[1].variables.text = <<>>

\* an object under the destination prefix that is no directory marker
IsOutput(object) ==
    /\ startswith(object.name, SubSeq(config["OUTPUT_DOCUMENT_PATH"].val, 8,
                                      Len(config["OUTPUT_DOCUMENT_PATH"].val)))
    /\ object.name[Len(object.name)] # "/"

\* C9: a job that does not complete within the 420 wait ends
\* async_detect_document with a timeout error, before any listing and without
\* a blob list; a returned list holds exactly the objects under the
\* destination prefix whose name does not end with "/".
C9_TimeoutOrExactListing ==
    /\ jobTime > OcrTimeout =>
          raised = "TimeoutError" /\ listings = 0 /\ blob_list = None
    /\ raised = "TimeoutError" => jobTime > OcrTimeout
    /\ blob_list.some =>
          /\ jobTime <= OcrTimeout
          /\ listings = 1
          /\ blob_list.val = SelectSeq(store, IsOutput)

\* the job outlived the wait and main has handled the timeout
C9_Witness ==
    /\ pc = "exit"
    /\ jobTime = OcrTimeout + 1
    /\ raised = "TimeoutError"
    /\ listings = 0
    /\ blob_list = None

\* C10: an OCR timeout, an extraction error, a gateway error or a parse error
\* is logged by the step that detected it and then a second time by main.
C10_LoggedAtDetection ==
    (pc = "exit" /\ raised \in {"TimeoutError", "KeyError", "JSONDecodeError",
                                "UnicodeDecodeError", "GatewayError"}) =>
        \E i, j \in 1..Len(logs) :
            /\ i < j
            /\ logs[i].level = "error"
            /\ logs[i].at # "main"
            /\ logs[j] = Error("main", raised)

====
